---- MODULE Spec2Model ----
(***************************************************************************)
(* Model of gistapi.py: the /api/v1/search handler, the paginated gist     *)
(* lister, the two read-through cached fetchers and the existence check.   *)
(* Every upstream GET and every cache get/set is one step of a request.    *)
(***************************************************************************)
EXTENDS Integers, Sequences, FiniteSets, TLC

VARIABLES
    redis_client,   \* TRUE when a cache is configured (WITH_REDIS), else None
    cache,          \* the redis key space: a function from URL keys to stored text
    pc,             \* per request thread: the position inside search()
    local,          \* per request thread: the local variables of search() and its callees
    resp,           \* per request thread: the response of the last finished request
    log,            \* per request thread: upstream GETs and cache operations of the current request
    resLog,         \* per URL: what each returned resolution of the URL returned, and from where
    nreq,           \* number of requests received so far
    request,        \* per request thread: the JSON body of the current request
    tested          \* per request thread: the file texts the current request matched, with the outcome

vars == <<redis_client, cache, pc, local, resp, log, resLog, nreq, request, tested>>

-----------------------------------------------------------------------------
(* Bounds of the exploration *)

MaxRequests == 2        \* requests handled one after the other
MaxDocs == 3            \* longest listing whose per-document loop is followed
MaxPagedRequests == 1   \* requests during which the upstream serves full listing pages
MaxConcDocs == 2        \* longest listing served while two threads serve requests

(* Constants of the program *)

per_page == 100     \* gists_for_user: per_page
page_limit == 30    \* gists_for_user: the literal in "page <= 30"

Threads == {1, 2}   \* app.run(threaded=True): requests are served by threads

-----------------------------------------------------------------------------
(* JSON values of the request body and of file contents *)

Null == [t |-> "null", v |-> <<>>]
Str(s) == [t |-> "str", v |-> s]
IsNull(x) == x.t = "null"

(* URLs *)

UserUrl(username) == [kind |-> "users", user |-> username, n |-> 0, f |-> ""]
GistsUrl(username, page) == [kind |-> "gists", user |-> username, n |-> page, f |-> ""]
GistUrl(id) == [kind |-> "gist", user |-> "", n |-> id, f |-> ""]
RawUrl(id, filename) == [kind |-> "raw", user |-> "", n |-> id, f |-> filename]
HtmlUrl(username, id) == [kind |-> "html", user |-> username, n |-> id, f |-> ""]

-----------------------------------------------------------------------------
(* The upstream service.  The content behind a document URL or a raw URL   *)
(* is fixed; which listing a user has, and whether a GET succeeds, is the  *)
(* upstream's choice at each request.                                       *)

InlineFile(text) == [truncated |-> FALSE, content |-> text, raw_url |-> RawUrl(0, "")]
TruncatedFile(id, filename) ==
    [truncated |-> TRUE, content |-> Str(<<>>), raw_url |-> RawUrl(id, filename)]
NoContentFile == [truncated |-> FALSE, raw_url |-> RawUrl(0, "")]

GistFiles(id) ==
    CASE id = 1 -> << <<"a", InlineFile(Str(<<"a", "b">>))>>,
                      <<"b", TruncatedFile(1, "b")>> >>
      [] id = 2 -> << <<"a", InlineFile(Str(<<"a", "b", "b">>))>>,
                      <<"b", InlineFile(Str(<<"a", "b">>))>>,
                      <<"c", InlineFile(Null)>> >>
      [] id = 3 -> << <<"a", InlineFile(Str(<<>>))>>,
                      <<"b", InlineFile(Str(<<"a", "b", "b">>))>>,
                      <<"c", NoContentFile>> >>
      [] id = 4 -> << <<"a", InlineFile(Str(<<"b">>))>>,
                      <<"b", NoContentFile>> >>
      [] id = 5 -> << <<"a", InlineFile(Null)>> >>
      [] OTHER  -> << <<"a", InlineFile(Str(<<"a">>))>> >>

GistDoc(id) == [id |-> id, files |-> GistFiles(id)]

RawText(url) == IF url.n = 1 THEN <<"b", "a", "b", "b">> ELSE <<"b">>

ErrorJson == [message |-> <<"N", "o", "t", " ", "F", "o", "u", "n", "d">>]
ErrorText == <<"4", "0", "4">>

(* an item of the listing, kept as the id of its gist; its "url" field is  *)
(* the document-detail URL of that gist                                     *)
Stub(id) == id
StubUrl(gist) == GistUrl(gist)
PageBody(page, size) == [i \in 1..size |-> Stub((page - 1) * per_page + i)]
PageSizes(page) ==
    (IF page = 1 THEN 0..MaxDocs ELSE {0}) \cup {per_page - 1, per_page}

-----------------------------------------------------------------------------
(* re.compile and re.match over patterns of literal characters, "." and    *)
(* "(": a "(" that is never closed does not compile.                        *)

RECURSIVE Depth(_, _)
Depth(p, i) ==
    IF i = 0 THEN 0
    ELSE Depth(p, i - 1) + (IF p[i] = "(" THEN 1 ELSE IF p[i] = ")" THEN -1 ELSE 0)

ReCompiles(p) ==
    /\ \A i \in 1..Len(p) : Depth(p, i) >= 0
    /\ Depth(p, Len(p)) = 0

(* re.search in the place of re.match: the pattern found at any offset *)
ReMatch_Search(p, text) ==
    \E k \in 0..(Len(text) - Len(p)) :
        \A i \in 1..Len(p) : p[i] = "." \/ p[i] = text[k + i]

(* re.match(pattern, file_text), line 191, as a truth value *)
ReMatch(p, text) ==
    /\ Len(p) <= Len(text)
    /\ \A i \in 1..Len(p) : p[i] = "." \/ p[i] = text[i]

Patterns == { <<"b">>, <<"a", "b", "b">>, <<>> }
BadPatterns == { <<"(">> }

-----------------------------------------------------------------------------
(* json.dumps and json.loads on the two shapes of body a document URL      *)
(* answers with: a gist object and an error object.  The text is a         *)
(* sequence of tokens.                                                      *)

Tok(k, s, n) == [k |-> k, s |-> s, n |-> n]
Punct(k) == Tok(k, <<>>, 0)
Key(name) == Tok("key", <<name>>, 0)

DumpValue(x) == IF IsNull(x) THEN Tok("null", <<>>, 0) ELSE Tok("str", x.v, 0)
DumpUrl(u) == Tok("url", <<u.kind, u.user, u.f>>, u.n)

DumpFile(fo) ==
    <<Punct("{"), Key("raw_url"), DumpUrl(fo.raw_url),
      Key("truncated"), Tok("bool", <<>>, IF fo.truncated THEN 1 ELSE 0)>>
    \o (IF "content" \in DOMAIN fo THEN <<Key("content"), DumpValue(fo.content)>> ELSE <<>>)
    \o <<Punct("}")>>

RECURSIVE DumpFiles(_)
DumpFiles(files) ==
    IF files = <<>> THEN <<>>
    ELSE <<Key(Head(files)[1])>> \o DumpFile(Head(files)[2]) \o DumpFiles(Tail(files))

JsonDumps(obj) ==
    IF "files" \in DOMAIN obj
    THEN <<Punct("{"), Key("id"), Tok("num", <<>>, obj.id), Key("files"), Punct("{")>>
         \o DumpFiles(obj.files) \o <<Punct("}"), Punct("}")>>
    ELSE <<Punct("{"), Key("message"), Tok("str", obj.message, 0), Punct("}")>>

LoadValue(tok) == IF tok.k = "null" THEN Null ELSE Str(tok.s)
LoadUrl(tok) == [kind |-> tok.s[1], user |-> tok.s[2], n |-> tok.n, f |-> tok.s[3]]

(* the file object whose "{" is at text[i], and the index after its "}" *)
LoadFile(text, i) ==
    LET base == [raw_url |-> LoadUrl(text[i + 2]), truncated |-> (text[i + 4].n = 1)]
    IN  IF text[i + 5].k = "}"
        THEN [val |-> base, next |-> i + 6]
        ELSE [val |-> [raw_url |-> base.raw_url, truncated |-> base.truncated,
                       content |-> LoadValue(text[i + 6])],
              next |-> i + 8]

RECURSIVE LoadFiles(_, _)
LoadFiles(text, i) ==
    IF text[i].k = "}" THEN <<>>
    ELSE LET fo == LoadFile(text, i + 1)
         IN  << <<text[i].s[1], fo.val>> >> \o LoadFiles(text, fo.next)

JsonLoads(text) ==
    IF text[2].s = <<"message">>
    THEN [message |-> text[3].s]
    ELSE [id |-> text[3].n, files |-> LoadFiles(text, 6)]

-----------------------------------------------------------------------------
(* Request bodies, responses and the exception layer of search()           *)

Absent == [t |-> "absent", v |-> <<>>]
UsernameChoices == {Absent, Null, Str("octocat")}
PatternChoices == {Absent, Null} \cup {Str(p) : p \in Patterns \cup BadPatterns}

PostData(u, p) ==
    (IF u.t = "absent" THEN <<>> ELSE [username |-> u])
    @@ (IF p.t = "absent" THEN <<>> ELSE [pattern |-> p])

Unbound == [bound |-> FALSE, d |-> <<>>]
EmptyDict == [bound |-> TRUE, d |-> <<>>]

NoResponse == [kind |-> "none", http |-> 0, body |-> <<>>]
Unhandled == [kind |-> "unhandled", http |-> 500, body |-> <<>>]
JsonResponse(http, body) == [kind |-> "json", http |-> http, body |-> body]

ErrorBody(code, message) == [status |-> "error", code |-> code, message |-> message]

(* the except clauses of search(); each writes into the local "result",    *)
(* which is unbound until line 169 has run                                 *)
Handler(exc, result) ==
    IF ~result.bound THEN Unhandled
    ELSE CASE exc = "UserNotFound" ->
                JsonResponse(400, ErrorBody(400, "Invalid username") @@ result.d)
           [] exc = "BadOrMissingParameter" ->
                JsonResponse(400, ErrorBody(400, "Bad or missing parameter") @@ result.d)
           [] exc = "ExternalError" ->
                JsonResponse(500, ErrorBody(500, "Information could not be retrieved from Github")
                                  @@ result.d)
           [] OTHER ->
                JsonResponse(500, ErrorBody(500, "Your request could not be processed")
                                  @@ result.d)

(* lines 155-167: the exception the validation of the body raises *)
ValidationError(post_data) ==
    CASE "username" \notin DOMAIN post_data -> "KeyError"
      [] IsNull(post_data.username) -> "BadOrMissingParameter"
      [] "pattern" \notin DOMAIN post_data -> "KeyError"
      [] IsNull(post_data.pattern) -> "BadOrMissingParameter"
      [] ~ReCompiles(post_data.pattern.v) -> "BadOrMissingParameter"
      [] OTHER -> "none"

(* lines 200-204 *)
SuccessBody(result, username, pattern, matching) ==
    [status |-> "success", username |-> username, pattern |-> pattern, matches |-> matching]
    @@ result.d

-----------------------------------------------------------------------------
(* Decisions of the callees *)

(* check_user_exists with the wrong status compared *)
CheckUserRaises_400(status) == status = 400

(* check_user_exists: line 139 *)
CheckUserRaises(status) == status = 404

(* gists_for_user without raise_for_status *)
ListingRaises_NoStatusCheck(status) == status = 0

(* gists_for_user: requests.get or raise_for_status raises (status 0 is a  *)
(* transport failure)                                                       *)
ListingRaises(status) == status = 0 \/ status >= 400

(* gists_for_user with "=" for "+=" *)
Accumulate_Overwrite(page, all_gists, body) == body

(* gists_for_user: line 71 for the first page, line 83 for the later ones *)
Accumulate(page, all_gists, body) == IF page = 1 THEN body ELSE all_gists \o body

(* gists_for_user: line 77, after "page" has been fetched *)
WhileCond(body, page) == Len(body) = per_page /\ page <= page_limit

(* "if redis_client:" with the guard dropped *)
UseCache_Always(client) == TRUE

(* lines 96, 106, 118, 128: "if redis_client:" *)
UseCache(client) == client

(* redis_client.get and redis_client.set *)
CacheGet(c, url) == IF url \in DOMAIN c THEN [hit |-> TRUE, val |-> c[url]]
                    ELSE [hit |-> FALSE, val |-> <<>>]
(* a set that is lost *)
CacheSet_Lost(c, url, val) == c

CacheSet(c, url, val) == [k \in DOMAIN c \cup {url} |-> IF k = url THEN val ELSE c[k]]

-----------------------------------------------------------------------------
(* History *)

Ev(op, url, status, len) == [op |-> op, url |-> url, status |-> status, len |-> len]

Resolved(rl, url, src, val) ==
    LET old == IF url \in DOMAIN rl THEN rl[url] ELSE <<>>
    IN  [k \in DOMAIN rl \cup {url} |->
            IF k = url THEN Append(old, [src |-> src, val |-> val]) ELSE rl[k]]

-----------------------------------------------------------------------------
(* State *)

Frame0 ==
    [username |-> "", pattern |-> <<>>, result |-> Unbound, page |-> 0,
     all_gists |-> <<>>, gists |-> <<>>, gi |-> 0, gist_full |-> <<>>, fi |-> 0,
     file_text |-> Null, matching |-> <<>>, url |-> GistUrl(0), r |-> <<>>]

(* the state after the module has loaded; workers is the set of threads  *)
(* that serve requests                                                     *)
Loaded(workers) ==
    /\ redis_client \in BOOLEAN
    /\ cache = <<>>
    /\ pc = [t \in Threads |-> IF t \in workers THEN "idle" ELSE "off"]
    /\ local = [t \in Threads |-> Frame0]
    /\ resp = [t \in Threads |-> NoResponse]
    /\ log = [t \in Threads |-> <<>>]
    /\ resLog = <<>>
    /\ nreq = 0
    /\ request = [t \in Threads |-> <<>>]
    /\ tested = [t \in Threads |-> <<>>]

(* requests arrive one after the other: one thread serves *)
Init == Loaded({1})

(* requests arrive together: both threads serve *)
InitConc == Loaded(Threads)

(* no other thread serves *)
Alone(t) == \A u \in Threads \ {t} : pc[u] = "off"

(* the request ends with response rs *)
Return(t, rs) ==
    /\ pc' = [pc EXCEPT ![t] = "done"]
    /\ local' = [local EXCEPT ![t] = Frame0]
    /\ resp' = [resp EXCEPT ![t] = rs]

(* an exception reaches the except clauses of search() *)
Raise(t, exc) == Return(t, Handler(exc, local[t].result))

Goto(t, label, frame) ==
    /\ pc' = [pc EXCEPT ![t] = label]
    /\ local' = [local EXCEPT ![t] = frame]
    /\ UNCHANGED resp

Begin(t, label, frame) ==
    /\ pc' = [pc EXCEPT ![t] = label]
    /\ local' = [local EXCEPT ![t] = frame]
    /\ resp' = [resp EXCEPT ![t] = NoResponse]

Logged(t, ev) == log' = [log EXCEPT ![t] = Append(@, ev)]

-----------------------------------------------------------------------------
(* search(): lines 154-169, from the request body to "result = {}" *)
Search_Validate(t) ==
    /\ pc[t] \in {"idle", "done"}
    /\ nreq < MaxRequests
    /\ nreq' = nreq + 1
    /\ log' = [log EXCEPT ![t] = <<>>]
    /\ tested' = [tested EXCEPT ![t] = <<>>]
    /\ UNCHANGED <<redis_client, cache, resLog>>
    /\ \E u \in UsernameChoices, p \in PatternChoices :
         LET post_data == PostData(u, p)
             exc == ValidationError(post_data)
         IN  /\ request' = [request EXCEPT ![t] = post_data]
             /\ IF exc # "none"
                THEN Return(t, Handler(exc, Unbound))
                ELSE Begin(t, "check_user",
                           [Frame0 EXCEPT !.username = post_data.username.v,
                                          !.pattern = post_data.pattern.v,
                                          !.result = EmptyDict])

(* check_user_exists() storing the body it received under the user URL *)
CheckUserExists_Cached(t) ==
    /\ pc[t] = "check_user"
    /\ UNCHANGED <<redis_client, resLog, nreq, request, tested>>
    /\ \E status \in {200, 404, 500, 0} :
         /\ Logged(t, Ev("GET", UserUrl(local[t].username), status, 0))
         /\ cache' = IF UseCache(redis_client) /\ status # 0
                     THEN CacheSet(cache, UserUrl(local[t].username), ErrorText)
                     ELSE cache
         /\ IF status = 0 THEN Raise(t, "ConnectionError")
            ELSE IF CheckUserRaises(status) THEN Raise(t, "UserNotFound")
            ELSE Goto(t, "list", [local[t] EXCEPT !.page = 1])

(* check_user_exists(): lines 137-140 *)
CheckUserExists(t) ==
    /\ pc[t] = "check_user"
    /\ UNCHANGED <<redis_client, cache, resLog, nreq, request, tested>>
    /\ \E status \in {200, 404, 500, 0} :
         /\ Logged(t, Ev("GET", UserUrl(local[t].username), status, 0))
         /\ IF status = 0 THEN Raise(t, "ConnectionError")
            ELSE IF CheckUserRaises(status) THEN Raise(t, "UserNotFound")
            ELSE Goto(t, "list", [local[t] EXCEPT !.page = 1])

(* gists_for_user(): one GET of lines 69-71 or 78-83 and the loop test *)
GistsForUser_Get(t) ==
    /\ pc[t] = "list"
    /\ UNCHANGED <<redis_client, cache, resLog, nreq, request, tested>>
    /\ \E status \in {200, 500, 0}, size \in PageSizes(local[t].page) :
         /\ status # 200 => size = 0
         /\ size = per_page => nreq <= MaxPagedRequests
         /\ ~Alone(t) => size <= MaxConcDocs
         /\ LET page == local[t].page
                body == PageBody(page, size)
                all_gists == Accumulate(page, local[t].all_gists, body)
            IN  /\ Logged(t, Ev("GET", GistsUrl(local[t].username, page), status, size))
                /\ IF ListingRaises(status) THEN Raise(t, "ExternalError")
                   ELSE IF WhileCond(body, page)
                   THEN Goto(t, "list", [local[t] EXCEPT !.page = page + 1,
                                                         !.all_gists = all_gists])
                   ELSE Goto(t, "for_gist", [local[t] EXCEPT !.all_gists = all_gists,
                                                             !.gists = all_gists,
                                                             !.gi = 1,
                                                             !.matching = <<>>])

(* search(): lines 200-204, after the last gist of the listing *)
Search_Finish(t) ==
    /\ pc[t] = "for_gist"
    /\ local[t].gi > Len(local[t].gists)
    /\ Return(t, JsonResponse(200, SuccessBody(local[t].result, local[t].username,
                                               local[t].pattern, local[t].matching)))
    /\ UNCHANGED <<redis_client, cache, log, resLog, nreq, request, tested>>

(* search(): line 177, the next gist of the listing; the loop is followed  *)
(* for listings of at most MaxDocs gists                                    *)
ForGist(t) ==
    /\ pc[t] = "for_gist"
    /\ local[t].gi <= Len(local[t].gists)
    /\ Len(local[t].gists) <= MaxDocs
    /\ Goto(t, "gist_get", [local[t] EXCEPT !.url = StubUrl(local[t].gists[local[t].gi])])
    /\ UNCHANGED <<redis_client, cache, log, resLog, nreq, request, tested>>

(* fetch_single_gist(): lines 118-124 *)
FetchSingleGist_Get(t) ==
    /\ pc[t] = "gist_get"
    /\ UNCHANGED <<redis_client, cache, nreq, request, tested>>
    /\ LET url == local[t].url
           check_cache == IF UseCache(redis_client) THEN CacheGet(cache, url)
                          ELSE CacheGet(<<>>, url)
       IN  /\ IF UseCache(redis_client) THEN Logged(t, Ev("cache_get", url, 0, 0))
              ELSE UNCHANGED log
           /\ IF check_cache.hit
              THEN /\ Goto(t, "for_file", [local[t] EXCEPT !.gist_full = JsonLoads(check_cache.val),
                                                           !.fi = 1])
                   /\ resLog' = Resolved(resLog, url, "cache", JsonLoads(check_cache.val))
              ELSE /\ Goto(t, "gist_http", local[t])
                   /\ UNCHANGED resLog

(* fetch_single_gist(): line 126 and the r.json() of lines 129/131.        *)
(* 200 answers with the gist, 404 with a JSON error object, 500 with a     *)
(* body that is not JSON, 0 is a transport failure.                         *)
FetchSingleGist_Http(t) ==
    /\ pc[t] = "gist_http"
    /\ UNCHANGED <<redis_client, cache, nreq, request, tested>>
    /\ \E status \in {200, 404, 500, 0} :
         LET url == local[t].url
             json == IF status = 200 THEN GistDoc(url.n) ELSE ErrorJson
         IN  /\ Logged(t, Ev("GET", url, status, 0))
             /\ IF status = 0 THEN Raise(t, "ConnectionError") /\ UNCHANGED resLog
                ELSE IF status = 500 THEN Raise(t, "JSONDecodeError") /\ UNCHANGED resLog
                ELSE IF UseCache(redis_client)
                THEN Goto(t, "gist_set", [local[t] EXCEPT !.r = json]) /\ UNCHANGED resLog
                ELSE /\ Goto(t, "for_file", [local[t] EXCEPT !.gist_full = json, !.fi = 1])
                     /\ resLog' = Resolved(resLog, url, "upstream", json)

(* fetch_single_gist(): lines 128-131 with a cache *)
FetchSingleGist_Set(t) ==
    /\ pc[t] = "gist_set"
    /\ cache' = CacheSet(cache, local[t].url, JsonDumps(local[t].r))
    /\ Logged(t, Ev("cache_set", local[t].url, 0, 0))
    /\ Goto(t, "for_file", [local[t] EXCEPT !.gist_full = local[t].r, !.fi = 1, !.r = <<>>])
    /\ resLog' = Resolved(resLog, local[t].url, "upstream", local[t].r)
    /\ UNCHANGED <<redis_client, nreq, request, tested>>

(* search(): lines 181-189, the next file of the gist *)
ForFile(t) ==
    /\ pc[t] = "for_file"
    /\ UNCHANGED <<redis_client, cache, log, resLog, nreq, request, tested>>
    /\ LET gist_full == local[t].gist_full
           fi == local[t].fi
       IN  IF "files" \notin DOMAIN gist_full THEN Raise(t, "KeyError")
           ELSE IF fi > Len(gist_full.files)
           THEN Goto(t, "for_gist", [local[t] EXCEPT !.gi = @ + 1])
           ELSE LET file_object == gist_full.files[fi][2]
                IN  IF file_object.truncated
                    THEN Goto(t, "file_get", [local[t] EXCEPT !.url = file_object.raw_url])
                    ELSE IF "content" \notin DOMAIN file_object THEN Raise(t, "KeyError")
                    ELSE Goto(t, "match", [local[t] EXCEPT !.file_text = file_object.content])

(* fetch_file_content(): lines 96-102 *)
FetchFileContent_Get(t) ==
    /\ pc[t] = "file_get"
    /\ UNCHANGED <<redis_client, cache, nreq, request, tested>>
    /\ LET url == local[t].url
           check_cache == IF UseCache(redis_client) THEN CacheGet(cache, url)
                          ELSE CacheGet(<<>>, url)
       IN  /\ IF UseCache(redis_client) THEN Logged(t, Ev("cache_get", url, 0, 0))
              ELSE UNCHANGED log
           /\ IF check_cache.hit
              THEN /\ Goto(t, "match", [local[t] EXCEPT !.file_text = Str(check_cache.val)])
                   /\ resLog' = Resolved(resLog, url, "cache", check_cache.val)
              ELSE /\ Goto(t, "file_http", local[t])
                   /\ UNCHANGED resLog

(* fetch_file_content(): line 104; 200 answers with the file's text, 404   *)
(* with an error text, 0 is a transport failure                            *)
FetchFileContent_Http(t) ==
    /\ pc[t] = "file_http"
    /\ UNCHANGED <<redis_client, cache, nreq, request, tested>>
    /\ \E status \in {200, 404, 0} :
         LET url == local[t].url
             text == IF status = 200 THEN RawText(url) ELSE ErrorText
         IN  /\ Logged(t, Ev("GET", url, status, 0))
             /\ IF status = 0 THEN Raise(t, "ConnectionError") /\ UNCHANGED resLog
                ELSE IF UseCache(redis_client)
                THEN Goto(t, "file_set", [local[t] EXCEPT !.r = text]) /\ UNCHANGED resLog
                ELSE /\ Goto(t, "match", [local[t] EXCEPT !.file_text = Str(text)])
                     /\ resLog' = Resolved(resLog, url, "upstream", text)

(* fetch_file_content(): lines 106-109 with a cache *)
FetchFileContent_Set(t) ==
    /\ pc[t] = "file_set"
    /\ cache' = CacheSet(cache, local[t].url, local[t].r)
    /\ Logged(t, Ev("cache_set", local[t].url, 0, 0))
    /\ Goto(t, "match", [local[t] EXCEPT !.file_text = Str(local[t].r), !.r = <<>>])
    /\ resLog' = Resolved(resLog, local[t].url, "upstream", local[t].r)
    /\ UNCHANGED <<redis_client, nreq, request, tested>>

(* line 193 with the URL put at the front *)
AppendMatching_Front(matching, url) == <<url>> \o matching

(* search(): line 193, "matching.append(url)" *)
AppendMatching(matching, url) == Append(matching, url)

(* the test of one file text, as the history keeps it *)
Test(gist, fi, text, matched) ==
    [id |-> gist, fi |-> fi, text |-> text, matched |-> matched]

(* search(): lines 191-194 without the "break" *)
Match_NoBreak(t) ==
    /\ pc[t] = "match"
    /\ UNCHANGED <<redis_client, cache, log, resLog, nreq, request>>
    /\ LET file_text == local[t].file_text
           gist == local[t].gist_full.id
           matched == ReMatch(local[t].pattern, file_text.v)
       IN  IF IsNull(file_text) THEN Raise(t, "TypeError") /\ UNCHANGED tested
           ELSE /\ tested' = [tested EXCEPT
                                ![t] = Append(@, Test(gist, local[t].fi, file_text.v, matched))]
                /\ IF matched
                   THEN Goto(t, "for_file",
                             [local[t] EXCEPT
                                !.matching = AppendMatching(@, HtmlUrl(local[t].username, gist)),
                                !.fi = @ + 1])
                   ELSE Goto(t, "for_file", [local[t] EXCEPT !.fi = @ + 1])

(* search(): lines 191-194 *)
Match(t) ==
    /\ pc[t] = "match"
    /\ UNCHANGED <<redis_client, cache, log, resLog, nreq, request>>
    /\ LET file_text == local[t].file_text
           gist == local[t].gist_full.id
           matched == ReMatch(local[t].pattern, file_text.v)
       IN  IF IsNull(file_text) THEN Raise(t, "TypeError") /\ UNCHANGED tested
           ELSE /\ tested' = [tested EXCEPT
                                ![t] = Append(@, Test(gist, local[t].fi, file_text.v, matched))]
                /\ IF matched
                   THEN Goto(t, "for_gist",
                             [local[t] EXCEPT
                                !.matching = AppendMatching(@, HtmlUrl(local[t].username, gist)),
                                !.gi = @ + 1])
                   ELSE Goto(t, "for_file", [local[t] EXCEPT !.fi = @ + 1])

-----------------------------------------------------------------------------

Next ==
    \E t \in Threads :
        \/ Search_Validate(t)
        \/ CheckUserExists(t)
        \/ GistsForUser_Get(t)
        \/ ForGist(t)
        \/ FetchSingleGist_Get(t)
        \/ FetchSingleGist_Http(t)
        \/ FetchSingleGist_Set(t)
        \/ ForFile(t)
        \/ FetchFileContent_Get(t)
        \/ FetchFileContent_Http(t)
        \/ FetchFileContent_Set(t)
        \/ Match(t)
        \/ Search_Finish(t)

Spec == Init /\ [][Next]_vars

(* the same program with two requests in flight at once *)
SpecConc == InitConc /\ [][Next]_vars

-----------------------------------------------------------------------------
(* Reading the history of a request *)

IsGet(e, kind) == e.op = "GET" /\ e.url.kind = kind
PageEvents(t) == SelectSeq(log[t], LAMBDA e : IsGet(e, "gists"))
FullPage(e) == e.status = 200 /\ e.len = per_page
ShortPage(e) == e.status = 200 /\ e.len < per_page

Done(t) == pc[t] = "done"
InLoop(t) ==
    pc[t] \in {"for_gist", "gist_get", "gist_http", "gist_set", "for_file",
               "file_get", "file_http", "file_set", "match"}

RECURSIVE Concat(_, _)
(* the items of the first k served pages, in page order then item order *)
Concat(pl, k) ==
    IF k = 0 THEN <<>> ELSE Concat(pl, k - 1) \o PageBody(pl[k].url.n, pl[k].len)

BadRequest == JsonResponse(400, ErrorBody(400, "Bad or missing parameter"))
InvalidUsername == JsonResponse(400, ErrorBody(400, "Invalid username"))
GithubError ==
    JsonResponse(500, ErrorBody(500, "Information could not be retrieved from Github"))

(* a GET of a document-detail URL or of a raw-content URL that failed *)
FailedResolution(e) ==
    e.op = "GET" /\ e.url.kind \in {"gist", "raw"} /\ e.status # 200
FailedListing(e) == IsGet(e, "gists") /\ e.status # 200

(* the body a successful GET of a cached URL returns *)
FreshBody(url) == IF url.kind = "gist" THEN JsonDumps(GistDoc(url.n)) ELSE RawText(url)

-----------------------------------------------------------------------------
(* C1: pagination cap. While every listing page the upstream returns is    *)
(* full, no page beyond page 30 is requested, and the listing returns      *)
(* after exactly 30 pages with 3000 items.                                  *)
C1_PaginationCap ==
    \A t \in Threads :
        LET pl == PageEvents(t)
        IN  (\A i \in 1..Len(pl) : FullPage(pl[i])) =>
                /\ \A i \in 1..Len(pl) : pl[i].url.n <= page_limit
                /\ InLoop(t) => /\ Len(pl) = page_limit
                                /\ Len(local[t].gists) = page_limit * per_page

(* C2: pagination termination. The pages are requested once each in        *)
(* increasing order from page 1; a short page k within the page cap is the *)
(* last page requested; the listing returns at once after it with the      *)
(* concatenation of the k served pages, and within the cap it returns      *)
(* only after a short page.                                                 *)
C2_PaginationTermination ==
    \A t \in Threads :
        LET pl == PageEvents(t)
            k == Len(pl)
        IN  /\ \A i \in 1..k : pl[i].url.n = i
            /\ \A i \in 1..k : (i <= page_limit /\ ShortPage(pl[i])) => i = k
            /\ (k >= 1 /\ k <= page_limit /\ ShortPage(pl[k])) =>
                   /\ \A i \in 1..(k - 1) : FullPage(pl[i])
                   /\ InLoop(t) \/ Done(t)
                   /\ InLoop(t) => local[t].gists = Concat(pl, k)
            /\ (InLoop(t) /\ k <= page_limit) => ShortPage(pl[k])

(* a listing of 29 full pages and a short page 30 has returned *)
C2_Witness ==
    \E t \in Threads :
        /\ pc[t] = "for_gist"
        /\ Len(PageEvents(t)) = page_limit
        /\ Len(local[t].gists) = (page_limit - 1) * per_page + (per_page - 1)

(* C3: a body without username or pattern, with one of them null, or with  *)
(* a pattern that does not compile is answered with 400 and                *)
(* {status: error, code: 400, message: Bad or missing parameter}.          *)
C3_BadRequestResponse ==
    \A t \in Threads :
        (Done(t) /\ ValidationError(request[t]) # "none") => resp[t] = BadRequest

(* C4: a request whose pattern does not compile ends with the bad-request  *)
(* response, and no upstream GET and no cache get or set happened in it.   *)
C4_BadPatternBeforeNetwork ==
    \A t \in Threads :
        (/\ Done(t)
         /\ "pattern" \in DOMAIN request[t]
         /\ request[t].pattern.t = "str"
         /\ ~ReCompiles(request[t].pattern.v)) =>
            /\ resp[t] = BadRequest
            /\ log[t] = <<>>

(* C5: when the existence check answers 404 the request ends with 400      *)
(* Invalid username, and neither the listing nor any document or           *)
(* raw-content URL is requested.                                            *)
C5_InvalidUsername ==
    \A t \in Threads :
        (\E i \in 1..Len(log[t]) : IsGet(log[t][i], "users") /\ log[t][i].status = 404) =>
            /\ Done(t)
            /\ resp[t] = InvalidUsername
            /\ \A i \in 1..Len(log[t]) : log[t][i].url.kind = "users"

(* a request whose existence check answered 404 has ended *)
C5_Witness ==
    \E t \in Threads :
        /\ Done(t)
        /\ Len(log[t]) = 1
        /\ IsGet(log[t][1], "users") /\ log[t][1].status = 404

(* C6: a failed GET (transport error or non-2xx) of a document-detail URL  *)
(* or of a raw-content URL ends the request at once with 500 and the       *)
(* message "Information could not be retrieved from Github".               *)
C6_FetchFailureIsUpstreamError ==
    \A t \in Threads :
        (\E i \in 1..Len(log[t]) : FailedResolution(log[t][i])) =>
            /\ Done(t)
            /\ resp[t] = GithubError

(* C7: a failed GET of a listing page, the first or a later one, ends the  *)
(* request with 500 and the message "Information could not be retrieved    *)
(* from Github"; the response carries nothing of the earlier pages and no  *)
(* document is resolved.                                                    *)
C7_ListingFailureAborts ==
    \A t \in Threads :
        (\E i \in 1..Len(log[t]) : FailedListing(log[t][i])) =>
            /\ Done(t)
            /\ resp[t] = GithubError
            /\ \A i \in 1..Len(log[t]) : log[t][i].url.kind \in {"users", "gists"}

(* a request whose page 1 was full and whose last page GET failed has ended *)
C7_Witness ==
    \E t \in Threads :
        LET pl == PageEvents(t)
        IN  /\ Done(t)
            /\ Len(pl) >= 2
            /\ FullPage(pl[1])
            /\ FailedListing(pl[Len(pl)])

(* C8: no partial result. A request in which the resolution of a listed    *)
(* document failed ends with an error response without a matches field.    *)
C8_NoPartialResult ==
    \A t \in Threads :
        (Done(t) /\ \E i \in 1..Len(log[t]) : FailedResolution(log[t][i])) =>
            /\ resp[t].kind = "json"
            /\ resp[t].http >= 400
            /\ "matches" \notin DOMAIN resp[t].body

(* C9: cache invariant. Every value stored under a URL key is the body a   *)
(* successful GET of that URL returns.                                      *)
C9_CacheHoldsFreshBody ==
    \A url \in DOMAIN cache : cache[url] = FreshBody(url)

(* C10: cache round-trip. With the cache enabled, of the resolutions of    *)
(* one URL that returned, only the first went upstream; every later one    *)
(* is served from the cache and returns what the first returned.           *)
C10_CacheRoundTrip ==
    redis_client =>
        \A url \in DOMAIN resLog :
            /\ resLog[url][1].src = "upstream"
            /\ \A i \in 2..Len(resLog[url]) :
                   /\ resLog[url][i].src = "cache"
                   /\ resLog[url][i].val = resLog[url][1].val

(* with the cache enabled, a document URL and a raw URL were each resolved twice *)
C10_Witness ==
    /\ redis_client
    /\ \E u \in DOMAIN resLog : u.kind = "gist" /\ Len(resLog[u]) = 2
    /\ \E u \in DOMAIN resLog : u.kind = "raw" /\ Len(resLog[u]) = 2

(* C11: cache disabled. Without a cache every returned resolution of a URL *)
(* went upstream, so two resolutions of one URL are two upstream fetches,  *)
(* and no cache get or set is issued and nothing is stored.                *)
C11_CacheDisabled ==
    ~redis_client =>
        /\ \A url \in DOMAIN resLog :
               \A i \in 1..Len(resLog[url]) : resLog[url][i].src = "upstream"
        /\ \A t \in Threads :
               \A i \in 1..Len(log[t]) : log[t][i].op \notin {"cache_get", "cache_set"}
        /\ cache = <<>>

(* without a cache, a document URL and a raw URL were each resolved twice *)
C11_Witness ==
    /\ ~redis_client
    /\ \E u \in DOMAIN resLog : u.kind = "gist" /\ Len(resLog[u]) = 2
    /\ \E u \in DOMAIN resLog : u.kind = "raw" /\ Len(resLog[u]) = 2

-----------------------------------------------------------------------------
(* Reading the outcome of a request *)

Listing(t) == Concat(PageEvents(t), Len(PageEvents(t)))
IsSuccess(t) == Done(t) /\ resp[t].kind = "json" /\ resp[t].http = 200
TestsOf(t, id) == SelectSeq(tested[t], LAMBDA e : e.id = id)
HasMatchingFile(t, id) == \E i \in DOMAIN tested[t] : tested[t][i].id = id /\ tested[t][i].matched
UrlsOf(username, ids) == [i \in 1..Len(ids) |-> HtmlUrl(username, ids[i])]

(* the text upstream holds for a file, Null when the file carries none *)
FileText(fo) ==
    IF fo.truncated THEN Str(RawText(fo.raw_url))
    ELSE IF "content" \in DOMAIN fo THEN fo.content ELSE Null
DocHasMatch(id, p) ==
    \E i \in DOMAIN GistFiles(id) :
        LET text == FileText(GistFiles(id)[i][2])
        IN  ~IsNull(text) /\ ReMatch(p, text.v)

(* every document and raw URL this request resolved returned the upstream's body *)
Clean(t) ==
    /\ \A i \in 1..Len(log[t]) : ~FailedResolution(log[t][i])
    /\ \A url \in DOMAIN cache : cache[url] = FreshBody(url)

InFileLoop(t) == pc[t] \in {"for_file", "file_get", "file_http", "file_set", "match"}
Occurrences(seq, x) == Cardinality({i \in DOMAIN seq : seq[i] = x})

(* C13: short-circuit within a document. Once a file text of a document    *)
(* has matched, the request is out of that document's file loop: no later  *)
(* file of it is tested, no raw URL of it is fetched, and its URL is in    *)
(* the matches exactly once.                                                *)
C13_ShortCircuit ==
    \A t \in Threads :
        /\ (InFileLoop(t) /\ "id" \in DOMAIN local[t].gist_full)
               => ~HasMatchingFile(t, local[t].gist_full.id)
        /\ \A i, j \in DOMAIN tested[t] :
               (i < j /\ tested[t][i].id = tested[t][j].id) => ~tested[t][i].matched
        /\ InLoop(t) =>
               \A i \in DOMAIN tested[t] :
                   tested[t][i].matched =>
                       Occurrences(local[t].matching,
                                   HtmlUrl(local[t].username, tested[t][i].id)) = 1
        /\ IsSuccess(t) =>
               \A i \in DOMAIN tested[t] :
                   tested[t][i].matched =>
                       Occurrences(resp[t].body.matches,
                                   HtmlUrl(request[t].username.v, tested[t][i].id)) = 1

(* the first file of document 1 matched; its truncated second file was     *)
(* never fetched and the request is at the next document                   *)
C13_Witness ==
    \E t \in Threads :
        /\ pc[t] = "for_gist"
        /\ local[t].gi = 2
        /\ tested[t] = <<Test(1, 1, <<"a", "b">>, TRUE)>>
        /\ GistFiles(1)[2][2].truncated
        /\ \A i \in 1..Len(log[t]) : log[t][i].url.kind # "raw"
        /\ local[t].matching = <<HtmlUrl("octocat", 1)>>

(* a literal pattern is found in text at offset k (0 is the start) *)
OccursAt(p, text, k) ==
    /\ k + Len(p) <= Len(text)
    /\ \A i \in 1..Len(p) : text[k + i] = p[i]
StartsWith(text, p) == OccursAt(p, text, 0)
OnlyLater(text, p) ==
    /\ ~StartsWith(text, p)
    /\ \E k \in 1..Len(text) : OccursAt(p, text, k)
Reported(t, id) ==
    \E i \in DOMAIN resp[t].body.matches :
        resp[t].body.matches[i] = HtmlUrl(request[t].username.v, id)

CouldNotProcess ==
    JsonResponse(500, ErrorBody(500, "Your request could not be processed"))
SuccessShape(rs) ==
    /\ rs.kind = "json" /\ rs.http = 200
    /\ DOMAIN rs.body = {"status", "username", "pattern", "matches"}
    /\ rs.body.status = "success"

(* C15: response totality. A finished request carries one of the five      *)
(* documented responses: success, bad request, invalid username, upstream  *)
(* error or the catch-all internal error; no failure leaves the handler    *)
(* as an unstructured error.                                                *)
C15_FiveResponses ==
    \A t \in Threads :
        Done(t) =>
            \/ SuccessShape(resp[t])
            \/ resp[t] \in {BadRequest, InvalidUsername, GithubError, CouldNotProcess}

(* C16: existence check. A 404 of the existence check ends the request     *)
(* with "Invalid username"; any other failure of it, another non-2xx       *)
(* status or a transport failure (status 0), ends the request with the     *)
(* upstream error, and the listing is not requested in either case.        *)
C16_ExistenceCheck ==
    \A t \in Threads :
        \A i \in 1..Len(log[t]) :
            LET e == log[t][i]
            IN  IsGet(e, "users") =>
                    /\ e.status = 404 => (Done(t) /\ resp[t] = InvalidUsername)
                    /\ e.status \notin {200, 404} => (Done(t) /\ resp[t] = GithubError)
                    /\ e.status # 200 => PageEvents(t) = <<>>

(* a file that is not truncated and carries no text *)
EmptyOrMissing(fo) ==
    /\ ~fo.truncated
    /\ \/ "content" \notin DOMAIN fo
       \/ IsNull(fo.content)
       \/ fo.content = Str(<<>>)
AtFile(t) ==
    /\ pc[t] = "for_file"
    /\ "files" \in DOMAIN local[t].gist_full
    /\ local[t].fi <= Len(local[t].gist_full.files)

(* C17: empty content. When the next file of a document is not truncated   *)
(* and its content is empty, absent or null, the request goes on to test   *)
(* the empty string for it; it does not end there.                          *)
C17_EmptyContent ==
    [][\A t \in Threads :
          (AtFile(t) /\ EmptyOrMissing(local[t].gist_full.files[local[t].fi][2]))
              => (pc'[t] = "match" /\ local'[t].file_text = Str(<<>>))]_vars

Rank(e) ==
    IF e.url.kind = "users" THEN 1 ELSE IF e.url.kind = "gists" THEN 2 ELSE 3
(* the documents a request resolved, in the order it came to them *)
DocOrder(t) ==
    LET first == IF UseCache(redis_client) THEN "cache_get" ELSE "GET"
        evs == SelectSeq(log[t], LAMBDA e : e.url.kind = "gist" /\ e.op = first)
    IN  [i \in 1..Len(evs) |-> evs[i].url.n]

(* C19: linear pipeline. Within a request the existence check comes before *)
(* every listing fetch and every listing fetch before every document       *)
(* fetch; documents are resolved in listing order; no failed fetch is      *)
(* repeated; and after a fetch that failed no further upstream request is  *)
(* issued.                                                                  *)
C19_LinearPipeline ==
    \A t \in Threads :
        /\ \A i, j \in 1..Len(log[t]) :
               i < j =>
                   /\ Rank(log[t][i]) <= Rank(log[t][j])
                   /\ ~(IsGet(log[t][i], "users") /\ IsGet(log[t][j], "users"))
                   /\ (log[t][i].op = "GET" /\ log[t][i].status # 200 /\ log[t][j].op = "GET")
                          => FALSE
        /\ DocOrder(t) # <<>> => DocOrder(t) = SubSeq(Listing(t), 1, Len(DocOrder(t)))

IsCacheOp(e) == e.op \in {"cache_get", "cache_set"}
Cacheable(url) == url.kind \in {"gist", "raw"}

(* what a request's history and the key space show of the cache frame *)
CacheFrame ==
    /\ \A url \in DOMAIN cache : Cacheable(url)
    /\ \A t \in Threads :
           /\ pc[t] \in {"check_user", "list"} =>
                  \A i \in 1..Len(log[t]) : ~IsCacheOp(log[t][i])
           /\ \A i \in 1..Len(log[t]) :
                  LET e == log[t][i]
                  IN  /\ IsCacheOp(e) => Cacheable(e.url)
                      /\ e.op = "cache_set" =>
                             /\ i >= 3
                             /\ log[t][i - 1].op = "GET" /\ log[t][i - 1].url = e.url
                             /\ log[t][i - 2].op = "cache_get" /\ log[t][i - 2].url = e.url
                             /\ e.url \in DOMAIN cache

(* a step changes the key space only by the set of a fetcher, under the    *)
(* URL that fetcher has just fetched                                        *)
CacheWrittenOnlyBySet ==
    cache' # cache =>
        \E t \in Threads :
            /\ pc[t] \in {"gist_set", "file_set"}
            /\ Cacheable(local[t].url)
            /\ DOMAIN cache' = DOMAIN cache \cup {local[t].url}
            /\ \A url \in DOMAIN cache \ {local[t].url} : cache'[url] = cache[url]
            /\ log'[t] = Append(log[t], Ev("cache_set", local[t].url, 0, 0))

(* C20: cache frame. The existence check and the listing neither read nor  *)
(* write the cache; the only keys ever written are document-detail URLs    *)
(* and raw-content URLs, each right after a miss and an upstream fetch of  *)
(* that URL; so a search that ends before its per-document stage leaves    *)
(* the cache as it found it.                                                *)
C20_CacheFrame == [](CacheFrame) /\ [][CacheWrittenOnlyBySet]_vars

(* with a populated cache, a search ended at the listing without a cache   *)
(* operation of its own; the keys are one document URL and one raw URL     *)
C20_Witness ==
    \E t \in Threads :
        /\ redis_client
        /\ Done(t) /\ resp[t] = GithubError
        /\ \A i \in 1..Len(log[t]) : ~IsCacheOp(log[t][i])
        /\ \E url \in DOMAIN cache : url.kind = "gist"
        /\ \E url \in DOMAIN cache : url.kind = "raw"

(* what the file loop of lines 181-194 does with a document whose files    *)
(* carry the upstream's texts: "match", "nomatch", or "error" when a file  *)
(* without text is reached first                                            *)
DocOutcome(id, p) ==
    LET files == GistFiles(id)
        Bad(i) == IsNull(FileText(files[i][2]))
        Hit(i) == ~Bad(i) /\ ReMatch(p, FileText(files[i][2]).v)
        stops == {i \in DOMAIN files : Bad(i) \/ Hit(i)}
    IN  IF stops = {} THEN "nomatch"
        ELSE LET m == CHOOSE i \in stops : \A k \in stops : i <= k
             IN  IF Bad(m) THEN "error" ELSE "match"

(* the response of a search that runs on its own, given the listing the    *)
(* upstream served it and the upstream's documents                          *)
AloneResponse(username, pattern, listing) ==
    IF \E k \in DOMAIN listing : DocOutcome(listing[k], pattern) = "error"
    THEN CouldNotProcess
    ELSE JsonResponse(200,
             SuccessBody(EmptyDict, username, pattern,
                         UrlsOf(username,
                                SelectSeq(listing,
                                          LAMBDA id : DocOutcome(id, pattern) = "match"))))

(* every upstream GET of the request was answered with 200 *)
AllAnswered(t) ==
    /\ log[t] # <<>>
    /\ \A i \in 1..Len(log[t]) : log[t][i].op = "GET" => log[t][i].status = 200

(* the texts under which the upstream bodies requests received for url are stored *)
Written(url) ==
    IF url \in DOMAIN resLog
    THEN {IF url.kind = "gist" THEN JsonDumps(resLog[url][i].val) ELSE resLog[url][i].val :
              i \in {k \in DOMAIN resLog[url] : resLog[url][k].src = "upstream"}}
    ELSE {}

(* C18: independence of concurrent requests. A key of the shared cache     *)
(* holds one of the bodies written for it, and a request that finishes     *)
(* while another is in flight, all of its own upstream fetches answered,   *)
(* returns the response it would return on its own against the same        *)
(* upstream documents.                                                      *)
C18_Independence ==
    /\ \A url \in DOMAIN cache : cache[url] \in Written(url)
    /\ \A t \in Threads :
           (/\ Done(t)
            /\ AllAnswered(t)
            /\ \E u \in Threads \ {t} : pc[u] \notin {"idle", "done", "off"})
               => resp[t] = AloneResponse(request[t].username.v, request[t].pattern.v,
                                          Listing(t))

====
